---------------------------- MODULE Spec2Model ----------------------------
(***************************************************************************)
(* A model of the shared helpers of the AI market place back end:          *)
(*   - Paginator                     (src/shared/utils/helpers.py)         *)
(*   - get_expiry_time / is_expired  (src/shared/utils/helpers.py)         *)
(*   - generate_random_string / generate_api_key                           *)
(*                                   (src/shared/utils/helpers.py)         *)
(*   - get_db                        (src/shared/common/database.py)       *)
(* Each component has a specification of its own (SpecPaginator,           *)
(* SpecExpiry, SpecKey, SpecDb); the components share no state.            *)
(***************************************************************************)
EXTENDS Integers, Sequences, FiniteSets, TLC

VARIABLES
    paginator,   \* the Paginator object built last (NoPaginator before any)
    now,         \* datetime.utcnow(), in hours
    expiry,      \* the last get_expiry_time call: its arguments, clock and result
    verdict,     \* the last is_expired call on expiry.value: its clock and result
    generated,   \* the last generate_random_string / generate_api_key call
    sessions     \* get_db: one generator per request

vars == <<paginator, now, expiry, verdict, generated, sessions>>

Min(a, b) == IF a < b THEN a ELSE b
Max(a, b) == IF a > b THEN a ELSE b

(***************************************************************************)
(* Bounds of the model.                                                    *)
(***************************************************************************)
MaxLen == 4         \* longest input list of a Paginator
NumVals == 2        \* distinct element values in an input list
MaxPage == 6        \* largest page requested
MaxNegPage == 3     \* pages down to -MaxNegPage are requested (page < 1 is not rejected)
MaxPageSize == 3    \* largest page_size; 0 is included (ZeroDivisionError)

RECURSIVE SeqsOfLen(_, _)
SeqsOfLen(S, n) ==
    IF n = 0 THEN {<<>>}
    ELSE {Append(s, x) : s \in SeqsOfLen(S, n - 1), x \in S}

ItemLists == UNION {SeqsOfLen(1..NumVals, n) : n \in 0..MaxLen}
Pages == (0 - MaxNegPage)..MaxPage
PageSizes == 0..MaxPageSize

(***************************************************************************)
(* Paginator                                                               *)
(***************************************************************************)

\* Faulty variant of PySlice: the slice runs to the end of the list, s[start:].
PySliceNoEnd(s, start, end) ==
    LET n  == Len(s)
        lo == IF start < 0 THEN Max(n + start, 0) ELSE Min(start, n)
    IN  IF lo >= n THEN <<>> ELSE SubSeq(s, lo + 1, n)

\* Python's list slice s[start:end] (step 1): a negative index counts from the
\* end, both indices are clipped to [0, len], an empty window gives [].
\* Python indexes from 0, SubSeq from 1.
PySlice(s, start, end) ==
    LET n  == Len(s)
        lo == IF start < 0 THEN Max(n + start, 0) ELSE Min(start, n)
        hi == IF end < 0 THEN Max(n + end, 0) ELSE Min(end, n)
    IN  IF lo >= hi THEN <<>> ELSE SubSeq(s, lo + 1, hi)

\* Faulty variant of TotalPages: the division rounds down.
TotalPagesFloor(total, page_size) == total \div page_size

\* (self.total + page_size - 1) // page_size, for page_size >= 1 (// rounds down,
\* as \div does)
TotalPages(total, page_size) == (total + page_size - 1) \div page_size

\* Faulty variant of SliceStart: the page is taken as 0-based.
SliceStartZeroBased(page, page_size) == page * page_size

\* start = (page - 1) * page_size
SliceStart(page, page_size) == (page - 1) * page_size

\* Faulty variant of SliceEnd: the end index is taken as inclusive.
SliceEndInclusive(start, page_size) == start + page_size + 1

\* end = start + page_size
SliceEnd(start, page_size) == start + page_size

\* Paginator.__init__: page_size = 0 raises ZeroDivisionError at the division,
\* and no object is built; nothing else is validated.
Paginator(items, page, page_size) ==
    IF page_size = 0
    THEN [error |-> "ZeroDivisionError", all_items |-> items,
          page |-> page, page_size |-> page_size]
    ELSE LET start == SliceStart(page, page_size)
             end   == SliceEnd(start, page_size)
         IN  [error       |-> "none",
              all_items   |-> items,
              page        |-> page,
              page_size   |-> page_size,
              total       |-> Len(items),
              total_pages |-> TotalPages(Len(items), page_size),
              items       |-> PySlice(items, start, end)]

\* Faulty variant of has_next: any page but the last has a next one.
HasNextNotLast(p) == p.page # p.total_pages

\* has_next: self.page < self.total_pages
has_next(p) == p.page < p.total_pages

\* Faulty variant of has_prev: page 1 has a previous page.
HasPrevFromOne(p) == p.page >= 1

\* has_prev: self.page > 1
has_prev(p) == p.page > 1

\* the constructor returned an object
Constructed(p) == p.error = "none"

\* The arguments of a Paginator(items, page, page_size) call that is yet to run.
PaginatorCall(items, page, page_size) ==
    [error |-> "pending", all_items |-> items, page |-> page, page_size |-> page_size]

NoPaginator == PaginatorCall(<<>>, 1, 1)

\* A request handler builds a Paginator from its list and page parameters.
Construct ==
    /\ paginator.error = "pending"
    /\ paginator' = Paginator(paginator.all_items, paginator.page, paginator.page_size)
    /\ UNCHANGED <<now, expiry, verdict, generated, sessions>>

(***************************************************************************)
(* Paginator: the claims                                                   *)
(***************************************************************************)

\* ceil(n / d) for n >= 0, d >= 1: the least q with q * d >= n
CeilDiv(n, d) == CHOOSE q \in 0..n : q * d >= n /\ \A r \in 0..n : r * d >= n => q <= r

\* the elements of s at the 0-based positions of [start, end) that lie in [0, Len(s)), in order
WindowOf(s, start, end) ==
    LET lo == Max(start, 0)
        hi == Min(end, Len(s))
    IN  [i \in 1..Max(hi - lo, 0) |-> s[lo + i]]

\* the items of pages from..to of a list, one page after the other
RECURSIVE ConcatPages(_, _, _, _)
ConcatPages(items, page_size, from, to) ==
    IF from > to THEN <<>>
    ELSE Paginator(items, from, page_size).items \o ConcatPages(items, page_size, from + 1, to)

Positions(n) == [i \in 1..n |-> i]

\* C1: total is the length of the input and total_pages is ceil(total / page_size),
\* which is 0 exactly for the empty input and is the same for every page.
C1_TotalPagesIsCeil ==
    Constructed(paginator) =>
        /\ paginator.total = Len(paginator.all_items)
        /\ paginator.total_pages = CeilDiv(Len(paginator.all_items), paginator.page_size)
        /\ (paginator.total_pages = 0 <=> Len(paginator.all_items) = 0)
        /\ \A q \in Pages :
               Paginator(paginator.all_items, q, paginator.page_size).total_pages
                   = paginator.total_pages

C1_Witness ==
    /\ Constructed(paginator)
    /\ paginator.total = 4 /\ paginator.page_size = 3 /\ paginator.total_pages = 2

\* C2: a page in 1..total_pages holds exactly page_size items, except the last one,
\* which holds the remainder total - (total_pages - 1) * page_size, in 1..page_size.
C2_PageLength ==
    (Constructed(paginator) /\ 1 <= paginator.page /\ paginator.page <= paginator.total_pages) =>
        LET rest == paginator.total - (paginator.total_pages - 1) * paginator.page_size
        IN  /\ paginator.page < paginator.total_pages =>
                   Len(paginator.items) = paginator.page_size
            /\ paginator.page = paginator.total_pages =>
                   /\ Len(paginator.items) = rest
                   /\ 1 <= rest /\ rest <= paginator.page_size

C2_Witness ==
    /\ Constructed(paginator)
    /\ paginator.page = paginator.total_pages /\ paginator.page > 1
    /\ Len(paginator.items) < paginator.page_size

\* the window claim of C3, for one Paginator
InWindow(p) ==
    p.items = WindowOf(p.all_items,
                       (p.page - 1) * p.page_size,
                       (p.page - 1) * p.page_size + p.page_size)

\* C3 as claimed: for every page the constructor accepts, items is the part of
\* all_items in the index window [start, end) clipped to [0, N).
C3_WindowAnyPage == Constructed(paginator) => InWindow(paginator)

\* C3 as amended: for every page >= 0 (so for every valid page >= 1), items is the
\* part of all_items in the index window [start, end) clipped to [0, N), and no
\* construction with page_size >= 1 fails.
C3_WindowFromPageZero ==
    /\ (Constructed(paginator) /\ paginator.page >= 0) => InWindow(paginator)
    /\ (paginator.error # "pending" /\ paginator.page_size >= 1) => Constructed(paginator)

C3_Witness ==
    /\ Constructed(paginator)
    /\ paginator.page = 2 /\ paginator.page_size = 3 /\ paginator.total = 4
    /\ paginator.items = <<paginator.all_items[4]>>

\* C4: a page beyond total_pages (the empty input included) has no items and no next page.
C4_BeyondLastPage ==
    (Constructed(paginator) /\ paginator.page > paginator.total_pages) =>
        /\ paginator.items = <<>>
        /\ ~has_next(paginator)

C4_Witness ==
    /\ Constructed(paginator)
    /\ paginator.page > paginator.total_pages /\ paginator.total > 0

\* C5 as claimed: for any integer page, has_prev is false iff page = 1 and
\* has_next is false iff page >= total_pages.
C5_PrevFalseIffPageOne ==
    Constructed(paginator) =>
        /\ (~has_prev(paginator) <=> paginator.page = 1)
        /\ (~has_next(paginator) <=> paginator.page >= paginator.total_pages)

\* C5 as amended: has_prev is false iff page <= 1 (iff page = 1 among the pages
\* >= 1), and has_next is false iff page >= total_pages.
C5_PrevFalseIffAtMostOne ==
    Constructed(paginator) =>
        /\ (~has_prev(paginator) <=> paginator.page <= 1)
        /\ paginator.page >= 1 => (~has_prev(paginator) <=> paginator.page = 1)
        /\ (~has_next(paginator) <=> paginator.page >= paginator.total_pages)

C5_Witness ==
    /\ Constructed(paginator)
    /\ paginator.page = 0 /\ ~has_prev(paginator) /\ has_next(paginator)

\* C10: the pages 1..total_pages, one after the other, are the input list (of its
\* values, and of its positions), and a page >= 1 with has_next is followed by a
\* page that is not empty.
C10_PagesPartition ==
    Constructed(paginator) =>
        /\ ConcatPages(paginator.all_items, paginator.page_size, 1, paginator.total_pages)
               = paginator.all_items
        /\ ConcatPages(Positions(paginator.total), paginator.page_size, 1, paginator.total_pages)
               = Positions(paginator.total)
        /\ (paginator.page >= 1 /\ has_next(paginator)) =>
               Paginator(paginator.all_items, paginator.page + 1, paginator.page_size).items # <<>>

C10_Witness ==
    /\ Constructed(paginator)
    /\ paginator.total = 4 /\ paginator.page_size = 3
    /\ paginator.page = 1 /\ has_next(paginator)

(***************************************************************************)
(* Expiry calculator: get_expiry_time, is_expired                          *)
(***************************************************************************)
HoursPerDay == 24        \* timedelta(days=d) is d * 24 hours; the clock counts hours
DefaultExpiryDays == 30  \* the offset when no argument is truthy
MaxClockDays == 32       \* the clock stops advancing here

\* Optional[int]: None, or an integer
None == <<>>
Some(x) == <<x>>

DaysArgs == {None} \cup {Some(d) : d \in {-1, 0, DefaultExpiryDays}}
HoursArgs == {None} \cup {Some(h) : h \in {0, HoursPerDay}}
TickSteps == {HoursPerDay}

\* `if days:` -- the truth value of an Optional[int]: None and 0 are false
Truthy(opt) == opt # None /\ opt[1] # 0

\* get_expiry_time(days, hours) when datetime.utcnow() reads `clock`
ExpiryTime(clock, days, hours) ==
    IF Truthy(days) THEN clock + days[1] * HoursPerDay
    ELSE IF Truthy(hours) THEN clock + hours[1]
    ELSE clock + DefaultExpiryDays * HoursPerDay

\* Faulty variant of IsExpiredAt: a timestamp expires at its own instant.
IsExpiredAtOrAfter(clock, expiry_time) == clock >= expiry_time

\* is_expired(expiry_time) when datetime.utcnow() reads `clock`
IsExpiredAt(clock, expiry_time) == clock > expiry_time

NoExpiry == [called |-> FALSE]
NoVerdict == [called |-> FALSE]

\* a call of get_expiry_time; its result is kept for later is_expired calls
get_expiry_time ==
    /\ \E days \in DaysArgs, hours \in HoursArgs :
           expiry' = [called |-> TRUE, days |-> days, hours |-> hours, at |-> now,
                      value |-> ExpiryTime(now, days, hours)]
    /\ verdict' = NoVerdict
    /\ UNCHANGED <<paginator, now, generated, sessions>>

\* a call of is_expired on the timestamp get_expiry_time returned
is_expired ==
    /\ expiry.called
    /\ verdict' = [called |-> TRUE, timestamp |-> expiry.value, at |-> now,
                   result |-> IsExpiredAt(now, expiry.value)]
    /\ UNCHANGED <<paginator, now, expiry, generated, sessions>>

\* the UTC clock advances; it is taken never to go back, which is the premise of C7
Tick ==
    /\ \E d \in TickSteps :
           /\ now + d <= MaxClockDays * HoursPerDay
           /\ now' = now + d
    /\ UNCHANGED <<paginator, expiry, verdict, generated, sessions>>

(***************************************************************************)
(* Expiry calculator: the claims                                           *)
(***************************************************************************)

\* C6: exactly one offset is applied: days whenever days is supplied (any integer,
\* hours ignored), else hours when hours is supplied, else 30 days.
C6_DaysWinsWheneverSupplied ==
    expiry.called =>
        expiry.value =
            IF expiry.days # None THEN expiry.at + expiry.days[1] * 24
            ELSE IF expiry.hours # None THEN expiry.at + expiry.hours[1]
            ELSE expiry.at + 30 * 24

\* C7: is_expired(t) is true iff the clock it reads is strictly later than t; so
\* with a clock that never goes back, a timestamp of get_expiry_time(days=-1) is
\* expired in every later call, and one of get_expiry_time(days=30) is not expired
\* in any call made at most 30 days later.
C7_ExpiredIffStrictlyLater ==
    verdict.called =>
        /\ verdict.result <=> verdict.at > verdict.timestamp
        /\ verdict.at >= expiry.at
        /\ expiry.days = Some(-1) => verdict.result
        /\ (expiry.days = Some(30) /\ verdict.at <= expiry.at + 30 * 24) => ~verdict.result

C7_Witness ==
    /\ verdict.called
    /\ expiry.days = Some(30) /\ verdict.at = expiry.at + 30 * 24 /\ ~verdict.result

(***************************************************************************)
(* Secret generator: generate_random_string, generate_api_key              *)
(* A str is modelled as the sequence of its characters.                    *)
(***************************************************************************)
ApiKeyLength == 64       \* generate_random_string(64) in generate_api_key
MaxLength == 3           \* longest generate_random_string(length) requested
MaxStride == 3           \* the draw sequences checked, see Draw

ascii_lowercase ==
    <<"a", "b", "c", "d", "e", "f", "g", "h", "i", "j", "k", "l", "m",
      "n", "o", "p", "q", "r", "s", "t", "u", "v", "w", "x", "y", "z">>
ascii_uppercase ==
    <<"A", "B", "C", "D", "E", "F", "G", "H", "I", "J", "K", "L", "M",
      "N", "O", "P", "Q", "R", "S", "T", "U", "V", "W", "X", "Y", "Z">>
digits == <<"0", "1", "2", "3", "4", "5", "6", "7", "8", "9">>

\* alphabet = string.ascii_letters + string.digits
alphabet == ascii_lowercase \o ascii_uppercase \o digits

\* secrets.choice(alphabet) returns any character of alphabet, at the will of the
\* operating system's random source.  The outcomes of a run of choices that are
\* checked are the sequences that start at any index a of the alphabet and advance
\* by a stride b: the i-th choice is alphabet[(a + b * i) mod len(alphabet)].  Every
\* character is chosen at every position by some sequence.
DrawSequences == (0..(Len(alphabet) - 1)) \X (0..MaxStride)

Draw(d, i) == ((d[1] + d[2] * i) % Len(alphabet)) + 1

\* ''.join(secrets.choice(alphabet) for _ in range(length)); range of a negative
\* length is empty
generate_random_string(length, d) ==
    [i \in 1..(IF length > 0 THEN length ELSE 0) |-> alphabet[Draw(d, i)]]

\* Faulty variant of generate_api_key: generate_random_string() with its default
\* length of 32.
ApiKeyDefaultLength(d) == <<"a", "i", "m", "p", "k", "_">> \o generate_random_string(32, d)

\* f"aimpk_{random_part}" with random_part = generate_random_string(64)
generate_api_key(d) ==
    <<"a", "i", "m", "p", "k", "_">> \o generate_random_string(ApiKeyLength, d)

\* a call that is yet to run: the function, its argument, and what the random
\* source will deliver
SecretCall(fn, length, d) ==
    [done |-> FALSE, fn |-> fn, length |-> length, draws |-> d, value |-> <<>>]

NoSecret == SecretCall("generate_random_string", 0, <<0, 0>>)

GenerateRandomString ==
    /\ ~generated.done /\ generated.fn = "generate_random_string"
    /\ generated' = [generated EXCEPT !.done = TRUE,
                        !.value = generate_random_string(generated.length, generated.draws)]
    /\ UNCHANGED <<paginator, now, expiry, verdict, sessions>>

GenerateApiKey ==
    /\ ~generated.done /\ generated.fn = "generate_api_key"
    /\ generated' = [generated EXCEPT !.done = TRUE,
                        !.value = generate_api_key(generated.draws)]
    /\ UNCHANGED <<paginator, now, expiry, verdict, sessions>>

(***************************************************************************)
(* Secret generator: the claims                                            *)
(***************************************************************************)

AsciiLettersAndDigits ==
    {"a", "b", "c", "d", "e", "f", "g", "h", "i", "j", "k", "l", "m",
     "n", "o", "p", "q", "r", "s", "t", "u", "v", "w", "x", "y", "z"}
    \cup {"A", "B", "C", "D", "E", "F", "G", "H", "I", "J", "K", "L", "M",
          "N", "O", "P", "Q", "R", "S", "T", "U", "V", "W", "X", "Y", "Z"}
    \cup {"0", "1", "2", "3", "4", "5", "6", "7", "8", "9"}

\* C8: an API key is "aimpk_" followed by exactly 64 ASCII letters and digits, and
\* generate_random_string(length) is exactly length such characters (length >= 0),
\* whatever the random source delivers.
C8_KeyFormat ==
    generated.done =>
        /\ generated.fn = "generate_api_key" =>
               /\ Len(generated.value) = 6 + 64
               /\ SubSeq(generated.value, 1, 6) = <<"a", "i", "m", "p", "k", "_">>
               /\ \A i \in 7..Len(generated.value) : generated.value[i] \in AsciiLettersAndDigits
        /\ generated.fn = "generate_random_string" =>
               /\ Len(generated.value) = generated.length
               /\ \A i \in 1..Len(generated.value) : generated.value[i] \in AsciiLettersAndDigits

C8_Witness ==
    /\ generated.done /\ generated.fn = "generate_api_key"
    /\ Len(generated.value) = 70
    /\ generated.value[7] = "9" /\ generated.value[8] = "b"

(***************************************************************************)
(* get_db: the session a request is handed, and its cleanup                *)
(*                                                                         *)
(*     async with async_session_maker() as session:                        *)
(*         try:                                                            *)
(*             yield session                                               *)
(*             await session.commit()                                      *)
(*         except Exception:                                               *)
(*             await session.rollback()                                    *)
(*             raise                                                       *)
(*         finally:                                                        *)
(*             await session.close()                                       *)
(*                                                                         *)
(* Every await is a step of its own, so the generators of concurrent       *)
(* requests interleave.  An awaited call returns, or raises an Exception,  *)
(* or raises a BaseException that is no Exception (asyncio.CancelledError, *)
(* GeneratorExit, KeyboardInterrupt): `except Exception` does not catch    *)
(* the latter.                                                             *)
(***************************************************************************)
NumRequests == 2         \* concurrent requests, each with a generator of its own

Requests == 1..NumRequests
ExceptionKinds == {"Exception", "BaseException"}

NoException == [kind |-> "none", from |-> "none"]
Raised(kind, from) == [kind |-> kind, from |-> from]

\* `except Exception:` -- which exceptions the handler catches
Catches(kind) == kind = "Exception"

\* Faulty variant of Reraised: the handler ends without `raise` and swallows the
\* exception.
ReraisedNothing(caught) == NoException

\* the bare `raise` that ends the handler: the exception that leaves it when
\* rollback has returned
Reraised(caught) == caught

\* the generator before the dependency is resolved
NoSession ==
    [pc       |-> "start",      \* start, yielded, commit, rollback, close, aexit, done
     calls    |-> <<>>,         \* the session methods called so far, in order
     first    |-> NoException,  \* what the consumer or commit raised
     caught   |-> NoException,  \* the exception the handler holds while rollback runs
     pending  |-> NoException,  \* the exception in flight through finally and __aexit__
     failed   |-> {},           \* the cleanup calls that raised
     raised   |-> NoException]  \* what the caller of the generator sees at the end

\* an exception e leaves the try body: to the handler (rollback is called) if it is
\* caught, else straight to finally (close is called)
LeaveTry(s, e) ==
    IF Catches(e.kind)
    THEN [s EXCEPT !.pc = "rollback", !.calls = Append(@, "rollback"),
                   !.first = e, !.caught = e]
    ELSE [s EXCEPT !.pc = "close", !.calls = Append(@, "close"),
                   !.first = e, !.pending = e]

\* async_session_maker() builds the session, __aenter__ returns it, the generator
\* yields it to the consumer
Open(r) ==
    /\ sessions[r].pc = "start"
    /\ sessions' = [sessions EXCEPT ![r].pc = "yielded"]
    /\ UNCHANGED <<paginator, now, expiry, verdict, generated>>

\* the consumer is done with the session and resumes the generator: commit is called
ConsumerReturns(r) ==
    /\ sessions[r].pc = "yielded"
    /\ sessions' = [sessions EXCEPT ![r].pc = "commit", ![r].calls = Append(@, "commit")]
    /\ UNCHANGED <<paginator, now, expiry, verdict, generated>>

\* the consumer raises: the exception is thrown into the generator at the yield
ConsumerRaises(r) ==
    /\ sessions[r].pc = "yielded"
    /\ \E kind \in ExceptionKinds :
           sessions' = [sessions EXCEPT ![r] = LeaveTry(@, Raised(kind, "consumer"))]
    /\ UNCHANGED <<paginator, now, expiry, verdict, generated>>

\* commit returns: the try body ends, finally calls close
CommitReturns(r) ==
    /\ sessions[r].pc = "commit"
    /\ sessions' = [sessions EXCEPT ![r].pc = "close", ![r].calls = Append(@, "close")]
    /\ UNCHANGED <<paginator, now, expiry, verdict, generated>>

CommitRaises(r) ==
    /\ sessions[r].pc = "commit"
    /\ \E kind \in ExceptionKinds :
           sessions' = [sessions EXCEPT ![r] = LeaveTry(@, Raised(kind, "commit"))]
    /\ UNCHANGED <<paginator, now, expiry, verdict, generated>>

\* rollback returns: `raise` re-raises the caught exception, finally calls close
RollbackReturns(r) ==
    /\ sessions[r].pc = "rollback"
    /\ sessions' = [sessions EXCEPT ![r].pc = "close", ![r].calls = Append(@, "close"),
                                    ![r].pending = Reraised(sessions[r].caught)]
    /\ UNCHANGED <<paginator, now, expiry, verdict, generated>>

\* rollback raises: its exception replaces the caught one, finally calls close
RollbackRaises(r) ==
    /\ sessions[r].pc = "rollback"
    /\ \E kind \in ExceptionKinds :
           sessions' = [sessions EXCEPT ![r].pc = "close", ![r].calls = Append(@, "close"),
                                        ![r].pending = Raised(kind, "rollback"),
                                        ![r].failed = @ \cup {"rollback"}]
    /\ UNCHANGED <<paginator, now, expiry, verdict, generated>>

\* close returns: the exception in flight, if any, goes on to the `async with`,
\* whose __aexit__ closes the session again
CloseReturns(r) ==
    /\ sessions[r].pc = "close"
    /\ sessions' = [sessions EXCEPT ![r].pc = "aexit", ![r].calls = Append(@, "close")]
    /\ UNCHANGED <<paginator, now, expiry, verdict, generated>>

CloseRaises(r) ==
    /\ sessions[r].pc = "close"
    /\ \E kind \in ExceptionKinds :
           sessions' = [sessions EXCEPT ![r].pc = "aexit", ![r].calls = Append(@, "close"),
                                        ![r].pending = Raised(kind, "close"),
                                        ![r].failed = @ \cup {"close"}]
    /\ UNCHANGED <<paginator, now, expiry, verdict, generated>>

\* __aexit__ returns (it suppresses nothing): the generator ends, and the exception
\* in flight reaches its caller
ExitReturns(r) ==
    /\ sessions[r].pc = "aexit"
    /\ sessions' = [sessions EXCEPT ![r].pc = "done", ![r].raised = sessions[r].pending]
    /\ UNCHANGED <<paginator, now, expiry, verdict, generated>>

ExitRaises(r) ==
    /\ sessions[r].pc = "aexit"
    /\ \E kind \in ExceptionKinds :
           sessions' = [sessions EXCEPT ![r].pc = "done",
                                        ![r].raised = Raised(kind, "aexit"),
                                        ![r].failed = @ \cup {"aexit"}]
    /\ UNCHANGED <<paginator, now, expiry, verdict, generated>>

(***************************************************************************)
(* get_db: the claims                                                      *)
(***************************************************************************)

Called(s, method) == \E i \in 1..Len(s.calls) : s.calls[i] = method

\* close is called only after commit and rollback
CloseComesLast(s) ==
    \A i, j \in 1..Len(s.calls) :
        (i < j /\ s.calls[i] = "close") => s.calls[j] = "close"

\* what C9 says of every path, exceptions aside
CommitOrRollbackThenClose(s) ==
    /\ CloseComesLast(s)
    /\ s.pc = "done" =>
          /\ Called(s, "close")
          /\ (s.first = NoException) => (Called(s, "commit") /\ ~Called(s, "rollback"))
          /\ (s.first.from = "commit") => Called(s, "commit")
          /\ (s.first.from = "consumer") => ~Called(s, "commit")

\* C9 as claimed: without an exception commit is called and rollback is not; when
\* the consumer or commit raises, rollback is called and the same exception reaches
\* the caller; close is always called, after commit or rollback.
C9_RollbackAndSameException ==
    \A r \in Requests :
        LET s == sessions[r]
        IN  /\ CommitOrRollbackThenClose(s)
            /\ (s.pc = "done" /\ s.first # NoException) =>
                  (Called(s, "rollback") /\ s.raised = s.first)

\* C9 as amended: rollback is called exactly when the consumer or commit raises an
\* Exception (a BaseException that is no Exception goes straight to close), and
\* the exception that reaches the caller is the one first raised unless rollback or
\* a close raises, whose exception then replaces it; nothing is raised when
\* nothing fails.
C9_RollbackOnException ==
    \A r \in Requests :
        LET s == sessions[r]
        IN  /\ CommitOrRollbackThenClose(s)
            /\ s.pc = "done" =>
                  /\ Called(s, "rollback") <=> s.first.kind = "Exception"
                  /\ s.failed = {} => s.raised = s.first
                  /\ s.failed # {} => s.raised.from \in s.failed

C9_Witness ==
    \E r \in Requests :
        /\ sessions[r].pc = "done"
        /\ sessions[r].first = Raised("Exception", "commit")
        /\ sessions[r].calls = <<"commit", "rollback", "close", "close">>
        /\ sessions[r].raised = sessions[r].first

(***************************************************************************)
(* The specifications, one per component                                   *)
(***************************************************************************)
PaginatorIdle == paginator = NoPaginator
ExpiryIdle == now = 0 /\ expiry = NoExpiry /\ verdict = NoVerdict
SecretIdle == generated = NoSecret
DbIdle == sessions = [r \in Requests |-> NoSession]

\* Paginator(items, page, page_size) for every list, page and page size of the bounds
InitPaginator ==
    /\ paginator \in {PaginatorCall(items, page, page_size) :
                         items \in ItemLists, page \in Pages, page_size \in PageSizes}
    /\ ExpiryIdle /\ SecretIdle /\ DbIdle

NextPaginator == Construct

SpecPaginator == InitPaginator /\ [][NextPaginator]_vars

InitExpiry == PaginatorIdle /\ ExpiryIdle /\ SecretIdle /\ DbIdle

NextExpiry == get_expiry_time \/ is_expired \/ Tick

SpecExpiry == InitExpiry /\ [][NextExpiry]_vars

\* generate_random_string(length) for every length of the bounds, and
\* generate_api_key(), for every draw sequence
InitKey ==
    /\ generated \in
           {SecretCall("generate_random_string", length, d) :
               length \in 0..MaxLength, d \in DrawSequences}
           \cup {SecretCall("generate_api_key", ApiKeyLength, d) : d \in DrawSequences}
    /\ PaginatorIdle /\ ExpiryIdle /\ DbIdle

NextKey == GenerateRandomString \/ GenerateApiKey

SpecKey == InitKey /\ [][NextKey]_vars

InitDb == PaginatorIdle /\ ExpiryIdle /\ SecretIdle /\ DbIdle

NextDb ==
    \E r \in Requests :
        \/ Open(r)
        \/ ConsumerReturns(r) \/ ConsumerRaises(r)
        \/ CommitReturns(r) \/ CommitRaises(r)
        \/ RollbackReturns(r) \/ RollbackRaises(r)
        \/ CloseReturns(r) \/ CloseRaises(r)
        \/ ExitReturns(r) \/ ExitRaises(r)

SpecDb == InitDb /\ [][NextDb]_vars

=============================================================================
